---- MODULE Spec2Model ----
(***************************************************************************)
(* A model of lumos.rpc (src/lumos/rpc.py): the registry of exported       *)
(* objects and callables, the Server's run loop and request handler, and   *)
(* the Client's request/decode step.                                       *)
(*                                                                         *)
(* Strings are sequences of tokens: a word token stands for a run of       *)
(* characters without '.', ' ', ':', ',', '{' or '}', and each of those    *)
(* six characters is a token of its own.  So the name "q.push" is          *)
(* <<"q", ".", "push">> and str.startswith / str.format / str.strip are    *)
(* computed on the tokens.                                                 *)
(***************************************************************************)
EXTENDS Naturals, Sequences, FiniteSets, TLC

VARIABLES
  exported_objects,    \* rpc._exported_objects: OrderedDict, a sequence of <<name, object>>
  exported_callables,  \* rpc._exported_callables: name -> call target
  rpc_attrs,           \* function object -> the marker attributes set to True on it
  refresh_todo,        \* refresh() in progress: the entries it has still to insert
  refresh_active,      \* TRUE while a refresh() call is between its first and last statement
  refresh_base,        \* _exported_callables as the refresh() in progress found it
  last_op,             \* the registry call the application made last
  pc,                  \* server -> where its thread is in Server.run()
  addr,                \* server -> self.addr, <<protocol, port>>
  timeout,             \* server -> self.timeout
  rpcServerThread,     \* server -> where the start_server_thread() call that launched it is
  loop_flag,           \* server -> the instance attribute _loop_flag, once run() has set it
  Server_loop_flag,    \* the class attribute Server._loop_flag
  running_instances,   \* Server._running_instances
  bound_sockets,       \* the servers whose socket is bound and not closed
  must_send,           \* server -> its REP socket has a request to answer
  recv_request,        \* server -> the request string recv() returned last
  requester,           \* server -> who sent that request
  sent,                \* server -> the frames handle() has sent for that request
  raised,              \* server -> the exception that ended run(), if one did
  last_call,           \* server -> the target handle() invoked last and what it did
  stop_pending,        \* the servers that were in their serve loop when stop() was called
  req_msg,             \* the request on its way to a server
  rep_msg,             \* the reply message that has arrived at the Client
  cpc,                 \* where the Client is in request()
  cresult,             \* what Client.call returned last
  call_oc,             \* what the target invoked for the Client's call did
  csock,               \* the state of the Client's REQ socket: "send" or "recv" comes next
  ctimeout,            \* the Client's receive timeout
  outstanding          \* requests the Client has put on the wire and has no reply for

regvars == <<exported_objects, exported_callables, rpc_attrs, refresh_todo, refresh_active, refresh_base, last_op>>
runvars == <<addr, timeout, rpcServerThread, loop_flag, Server_loop_flag, running_instances, bound_sockets, raised, stop_pending>>
reqvars == <<must_send, recv_request, requester, sent, last_call>>
wirevars == <<req_msg, rep_msg, cpc, cresult, call_oc, csock, ctimeout, outstanding>>
vars == <<regvars, pc, runvars, reqvars, wirevars>>

----------------------------------------------------------------------------
(* Python values used as names *)

NoName == <<>>
Dot == "."
ClassName == <<"QueueService">>

\* "{}.{}".format(obj_name, method_name)
QualifiedName(obj_name, method_name) == obj_name \o <<Dot>> \o <<method_name>>

\* "{}.".format(name)
Prefix(name) == name \o <<Dot>>

\* qualified_name.startswith(prefix)
StartsWith(s, prefix) ==
  /\ Len(s) >= Len(prefix)
  /\ SubSeq(s, 1, Len(prefix)) = prefix

----------------------------------------------------------------------------
(* The objects an application hands to export(): the class QueueService of *)
(* the module docstring and the tests, one instance of it, plain           *)
(* functions, and a bound method.                                          *)

TheClass == "QueueService"
TheInstance == "q0"
NoSelf == "-"

MethodNames == {"count", "pop", "push"}
IsClassMethodName(m) == m = "count"

\* A call target is <<__self__, function>>; a plain function has no __self__.
FunctionTarget(f) == <<NoSelf, f>>
MethodTarget(self, m) == <<self, m>>

\* What export() is given: <<kind, object, function>>.
ClassObj == <<"type", TheClass, "">>
InstanceObj == <<"instance", TheInstance, "">>
FunctionObj(f) == <<"callable", NoSelf, f>>
MethodObj(self, m) == <<"method", self, m>>

\* obj.__name__ / obj.__class__.__name__ / function.__name__
DefaultName(obj) ==
  IF obj[1] \in {"type", "instance"} THEN ClassName ELSE <<obj[3]>>

----------------------------------------------------------------------------
(* dict and OrderedDict *)

EmptyDict == [k \in {} |-> 0]
DictPutOrDrop(d, k, v) ==
  IF k \in DOMAIN d THEN [x \in (DOMAIN d) \ {k} |-> d[x]]
  ELSE [x \in (DOMAIN d) \cup {k} |-> IF x = k THEN v ELSE d[x]]
DictPut(d, k, v) == [x \in (DOMAIN d) \cup {k} |-> IF x = k THEN v ELSE d[x]]
DictDelNothing(d, ks) == d
DictDel(d, ks) == [x \in (DOMAIN d) \ ks |-> d[x]]

OdKeys(od) == {od[i][1] : i \in 1..Len(od)}
OdGet(od, k) == (CHOOSE i \in 1..Len(od) : od[i][1] = k)
\* od[k] = v: an existing key keeps its place, a new key goes last
OdPut(od, k, v) ==
  IF k \in OdKeys(od)
  THEN [i \in 1..Len(od) |-> IF od[i][1] = k THEN <<k, v>> ELSE od[i]]
  ELSE Append(od, <<k, v>>)
\* del od[k]
OdDel(od, k) ==
  LET i == OdGet(od, k)
  IN SubSeq(od, 1, i - 1) \o SubSeq(od, i + 1, Len(od))

----------------------------------------------------------------------------
(* Marker attributes *)

RpcEnabledAttr == "_rpc_enabled"
RpcRawPayloadAttr == "_rpc_raw_payload"
RpcImagePayloadAttr == "_rpc_image_payload"
NoAttr == "none"

\* getattr(method, attr, False)
HasAttr(attrs, f, a) == a \in attrs[f]

\* enable(method, payload_attr): the attributes go on the underlying function
EnableAttrs(attrs, f, payload_attr) ==
  [attrs EXCEPT ![f] = @ \cup {RpcEnabledAttr}
                         \cup (IF payload_attr = NoAttr THEN {} ELSE {payload_attr})]

\* disable(method): only the enabled marker is reset, a payload marker stays
DisableAttrs(attrs, f) == [attrs EXCEPT ![f] = @ \ {RpcEnabledAttr}]

----------------------------------------------------------------------------
(* export / unexport / clear *)

\* a do_export that loses the name it was given and uses the object's own
DoExportUnderOwnName(objs, calls, name, obj) ==
  LET name_ == DefaultName(obj)
  IN CASE obj[1] \in {"type", "instance"} ->
            [objs |-> OdPut(objs, name_, obj[2]), calls |-> calls]
       [] obj[1] = "method" ->
            [objs |-> objs, calls |-> calls]
       [] OTHER ->
            [objs |-> objs, calls |-> DictPut(calls, name_, FunctionTarget(obj[3]))]

\* export.do_export: where the object goes, by its kind
DoExport(objs, calls, name, obj) ==
  LET name_ == IF name = NoName THEN DefaultName(obj) ELSE name
  IN CASE obj[1] \in {"type", "instance"} ->
            [objs |-> OdPut(objs, name_, obj[2]), calls |-> calls]
       [] obj[1] = "method" ->          \* only a warning is logged
            [objs |-> objs, calls |-> calls]
       [] OTHER ->                      \* a function or other callable
            [objs |-> objs, calls |-> DictPut(calls, name_, FunctionTarget(obj[3]))]

DoUnexportOrClear(objs, calls, name) ==
  IF name \in OdKeys(objs)
  THEN [objs |-> OdDel(objs, name),
        calls |-> DictDel(calls, {qn \in DOMAIN calls : StartsWith(qn, Prefix(name))})]
  ELSE IF name \in DOMAIN calls
  THEN [objs |-> objs, calls |-> DictDel(calls, {name})]
  ELSE [objs |-> <<>>, calls |-> EmptyDict]
\* unexport(name)
DoUnexport(objs, calls, name) ==
  IF name \in OdKeys(objs)
  THEN LET prefix == Prefix(name)
           methods_to_remove == {qn \in DOMAIN calls : StartsWith(qn, prefix)}
       IN [objs |-> OdDel(objs, name), calls |-> DictDel(calls, methods_to_remove)]
  ELSE IF name \in DOMAIN calls
  THEN [objs |-> objs, calls |-> DictDel(calls, {name})]
  ELSE [objs |-> objs, calls |-> calls]   \* only a warning is logged

----------------------------------------------------------------------------
(* refresh *)

BoundSelfIsObject(obj, m) == obj
\* getattr(obj, m).__self__: a classmethod is bound to the class, an
\* instance method taken from the class is unbound (None)
BoundSelf(obj, m) ==
  IF IsClassMethodName(m) THEN TheClass
  ELSE IF obj = TheClass THEN NoSelf
  ELSE obj

\* is_rpc_enabled(getattr(obj, m))
IsRpcEnabled(attrs, obj, m) ==
  /\ BoundSelf(obj, m) # NoSelf
  /\ HasAttr(attrs, m, RpcEnabledAttr)

\* getmembers(obj, is_rpc_enabled), sorted by name, without the methods
\* whose __self__ is not obj
\* the place of a method name in alphabetical order
MethodRank(m) == CASE m = "count" -> 1 [] m = "pop" -> 2 [] OTHER -> 3

RECURSIVE SortedMembers(_)
SortedMembers(ms) ==
  IF ms = {} THEN <<>>
  ELSE LET m == CHOOSE x \in ms : \A y \in ms : MethodRank(x) <= MethodRank(y)
       IN <<m>> \o SortedMembers(ms \ {m})

ObjectEntriesNone(attrs, obj_name, obj) == <<>>
ObjectEntries(attrs, obj_name, obj) ==
  LET ms == {m \in MethodNames : IsRpcEnabled(attrs, obj, m) /\ BoundSelf(obj, m) = obj}
      sorted == SortedMembers(ms)
  IN [i \in 1..Len(sorted) |->
        <<QualifiedName(obj_name, sorted[i]), MethodTarget(obj, sorted[i])>>]

\* the assignments refresh() makes, in the order it makes them
RECURSIVE RefreshEntries(_, _)
RefreshEntries(attrs, objs) ==
  IF objs = <<>> THEN <<>>
  ELSE ObjectEntries(attrs, Head(objs)[1], Head(objs)[2]) \o RefreshEntries(attrs, Tail(objs))

RECURSIVE ApplyEntries(_, _)
ApplyEntries(calls, entries) ==
  IF entries = <<>> THEN calls
  ELSE ApplyEntries(DictPut(calls, Head(entries)[1], Head(entries)[2]), Tail(entries))

RefreshedFromScratch(attrs, objs, calls) == ApplyEntries(EmptyDict, RefreshEntries(attrs, objs))
\* _exported_callables when a refresh() started now has returned
Refreshed(attrs, objs, calls) == ApplyEntries(calls, RefreshEntries(attrs, objs))

----------------------------------------------------------------------------
(* Python values.  A str is a token sequence; uni marks a unicode object   *)
(* holding a non-ASCII character (what json.loads returns for a JSON       *)
(* string with such a character).                                         *)

PyNone == [t |-> "None"]
PyInt(n) == [t |-> "int", v |-> n]
PyStr(s) == [t |-> "str", s |-> s, uni |-> FALSE]
PyUnicode(s) == [t |-> "str", s |-> s, uni |-> TRUE]
PyTuple(items) == [t |-> "tuple", items |-> items]
PyList(items) == [t |-> "list", items |-> items]
PyDict(keys) == [t |-> "dict", keys |-> keys]
PyBytes(b) == [t |-> "bytes", b |-> b]
\* a numpy array: its shape, its dtype, the bytes of its elements in C order,
\* and whether its memory is one contiguous segment (a slice such as
\* a[:, ::2] or a crop a[y0:y1, x0:x1] is a view that is not)
PyArray(shape, dtype, data, contiguous) ==
  [t |-> "ndarray", shape |-> shape, dtype |-> dtype, data |-> data, contiguous |-> contiguous]
PyObject == [t |-> "object"]
PyException(msg) == [t |-> "Exception", msg |-> msg]
Absent == [t |-> "absent"]

Space == " "
Delimiters == {" ", ":", ",", "{", "}"}

\* "...{}".format(x) in Python 2 encodes a unicode argument as ASCII
FormatRaises(x) == x.t = "str" /\ x.uni
\* a text with a character outside ASCII
NonAscii == <<"caf\\xe9">>

----------------------------------------------------------------------------
(* JSON.  A JSON text is modelled by the document it spells; json.dumps    *)
(* and json.loads map between Python values and documents.                 *)

JsonSerializable(x) ==
  \/ x.t \in {"None", "int", "str"}
  \/ /\ x.t \in {"tuple", "list"}
     /\ \A i \in 1..Len(x.items) : x.items[i].t \in {"None", "int", "str"}

\* json.dumps: a tuple is written as an array, like a list
JsonDumps(x) ==
  LET Scalar(y) == CASE y.t = "None" -> [j |-> "null"]
                     [] y.t = "int" -> [j |-> "num", v |-> y.v]
                     [] OTHER -> [j |-> "str", s |-> y.s]
  IN IF x.t \in {"tuple", "list"}
     THEN [j |-> "arr", items |-> [i \in 1..Len(x.items) |-> Scalar(x.items[i])]]
     ELSE Scalar(x)

\* json.loads: an array is read as a list
JsonLoads(d) ==
  LET Scalar(e) == CASE e.j = "null" -> PyNone
                     [] e.j = "num" -> PyInt(e.v)
                     [] OTHER -> PyStr(e.s)
  IN IF d.j = "arr"
     THEN PyList([i \in 1..Len(d.items) |-> Scalar(d.items[i])])
     ELSE Scalar(d)

----------------------------------------------------------------------------
(* Messages *)

MakeCallRequestWithoutParams(call, params) ==
  [t |-> "dict", type |-> PyStr(<<"call">>), call |-> call, params |-> PyList(<<>>)]
\* make_call_request(call, params)
MakeCallRequest(call, params) == [t |-> "dict", type |-> PyStr(<<"call">>), call |-> call, params |-> params]

\* a dict with other members than make_call_request gives it
RequestDict(type, call, params) == [t |-> "dict", type |-> type, call |-> call, params |-> params]

\* make_call_reply(value), as written by send_json
MakeCallReply(value) == [status |-> "ok", type |-> "value", value |-> JsonDumps(value)]
MakeCallReplyRawAsValue == [status |-> "ok", type |-> "value"]
\* make_call_reply_raw()
MakeCallReplyRaw == [status |-> "ok", type |-> "raw"]
\* make_call_reply_image(image)
MakeCallReplyImage(image) == [status |-> "ok", type |-> "image", shape |-> image.shape, dtype |-> image.dtype]
\* make_error_reply(msg)
MakeErrorReply(msg) == [status |-> "error", type |-> "msg", msg |-> msg]

reply_bad_json == MakeErrorReply(<<"JSON", " ", "error">>)
reply_bad_request == MakeErrorReply(<<"Bad", " ", "request">>)
reply_bad_call == MakeErrorReply(<<"Unknown", " ", "call">>)
reply_bad_params == MakeErrorReply(<<"Bad", " ", "params">>)

\* one part of a ZMQ message: socket.send_json(d, flags) / socket.send(data, flags)
JsonFrame(d, more) == [json |-> TRUE, more |-> more, body |-> d]
DataFrame(data, more) == [json |-> FALSE, more |-> more, body |-> data]

\* A request string on the wire: the JSON document it spells (doc), or, when
\* it does not come from a JSON writer, its tokens (text).
NoDoc == [t |-> "nodoc"]
DocRequest(doc) == [doc |-> doc, text |-> <<>>]
TextRequest(text) == [doc |-> NoDoc, text |-> text]

----------------------------------------------------------------------------
(* Call targets: what call_target with the params as keywords can do.  The plain functions   *)
(* foo and bar and the methods of QueueService are those of the module     *)
(* docstring and the tests; get, grab, read and fail stand for an          *)
(* application's targets (read is ImageServer.read, which returns the      *)
(* current image or None).                                                 *)

ListFunction == "list_"
RawFunction == "grab"
ImageFunction == "read"
FailingFunction == "fail"
FunctionIds == MethodNames \cup {"foo", "bar", "get"} \cup {RawFunction, ImageFunction, FailingFunction, ListFunction}

\* the keyword parameters a target declares (self and cls are bound)
Signature(f) == IF f = "push" THEN {"item"} ELSE {}

Returns(v) == [k |-> "return", val |-> v]
Raises(cls, msg) == [k |-> "raise", cls |-> cls, msg |-> msg]
NoOutcome == [k |-> "none"]

Buf1 == PyBytes("b1")
Buf2 == PyBytes("b2")
Image3D == PyArray(<<2, 2, 3>>, "uint8", "pixels", TRUE)

\* the exception classes derived from Exception; SystemExit is derived from
\* BaseException only
ExceptionClasses == {"ValueError", "TypeError", "IndexError", "UnicodeEncodeError"}
ZMQErrorClass == "ZMQError"

\* _exported_callables.keys()
RECURSIVE KeyList(_)
KeyList(ks) ==
  IF ks = {} THEN <<>>
  ELSE LET k == CHOOSE x \in ks : TRUE
       IN <<PyStr(k)>> \o KeyList(ks \ {k})

\* what the body of a target can do once its parameters are bound
BodyOutcomes(f, calls) ==
  CASE f = ListFunction -> {Returns(PyList(KeyList(DOMAIN calls)))}
    [] f = "foo" -> {Returns(PyStr(<<"who?">>))}
    [] f = "get" -> {Returns(PyInt(7)), Returns(PyTuple(<<PyInt(1), PyInt(2)>>)),
                     Returns(PyList(<<PyInt(1), PyInt(2)>>)), Returns(PyObject),
                     Returns(PyUnicode(NonAscii))}
    [] f = RawFunction -> {Returns(Buf1), Returns(PyList(<<Buf1, Buf2>>)), Returns(PyList(<<Buf1>>)),
                           Returns(PyList(<<>>)), Returns(PyNone)}
    [] f = ImageFunction -> {Returns(Image3D), Returns([Image3D EXCEPT !.contiguous = FALSE]),
                             Returns(PyNone)}
    [] f = FailingFunction -> {Raises("ValueError", <<"bad">>), Raises(ZMQErrorClass, <<"busy">>),
                               Raises("SystemExit", <<>>)}
    [] OTHER -> {Returns(PyNone)}

\* call_target with the params as keywords: a keyword that is not a parameter, or a parameter
\* without a keyword, raises TypeError before the body runs
CallOutcomes(target, params, calls) ==
  IF params.keys = Signature(target[2])
  THEN BodyOutcomes(target[2], calls)
  ELSE {Raises("TypeError", <<"arguments">>)}

----------------------------------------------------------------------------
(* Server.handle *)

_helpers == [n \in {<<"rpc", Dot, "list">>} |-> FunctionTarget(ListFunction)]
NoTarget == <<NoSelf, "">>

\* request.strip()
RECURSIVE LStrip(_)
LStrip(s) == IF s # <<>> /\ Head(s) = Space THEN LStrip(Tail(s)) ELSE s
RECURSIVE RStrip(_)
RStrip(s) == IF s # <<>> /\ s[Len(s)] = Space THEN RStrip(SubSeq(s, 1, Len(s) - 1)) ELSE s
Strip(s) == RStrip(LStrip(s))

\* words that are JSON texts by themselves
NumberWords == {"123"}
\* json.loads of a request that is given by its tokens: over these tokens the
\* JSON texts are a literal, a number and the empty object
TextIsJson(text) ==
  LET s == Strip(text)
  IN \/ Len(s) = 1 /\ s[1] \in NumberWords \cup {"null"}
     \/ Len(s) = 3 /\ s[1] \in NumberWords /\ s[2] = Dot /\ s[3] \in NumberWords
     \/ Len(s) >= 2 /\ s[1] = "{" /\ s[Len(s)] = "}"
        /\ \A i \in 2..(Len(s) - 1) : s[i] = Space

TextValue(text) ==
  LET s == Strip(text)
  IN IF s[1] = "{" THEN [t |-> "dict", type |-> Absent, call |-> Absent, params |-> Absent]
     ELSE IF s[1] = "null" THEN PyNone
     ELSE PyInt(123)

\* a JSON string literal whose bytes are not UTF-8, as one token
BadUtf8String == "\"\\xff\""

\* json.loads decodes a str string literal as UTF-8 when it scans it: the
\* literal that starts the text, or the first key of an object, raises
\* UnicodeDecodeError when its bytes are not UTF-8
TextRaisesUnicodeDecodeError(text) ==
  LET s == LStrip(text)
  IN /\ s # <<>>
     /\ \/ s[1] = BadUtf8String
        \/ /\ s[1] = "{"
           /\ LStrip(Tail(s)) # <<>>
           /\ Head(LStrip(Tail(s))) = BadUtf8String

\* json.loads(request): the value, or JSONDecodeError
RequestIsJson(request) == request.doc # NoDoc \/ TextIsJson(request.text)
RequestValue(request) == IF request.doc # NoDoc THEN request.doc ELSE TextValue(request.text)

\* the steps of handle() end in one of these
RpcError(retval) == [k |-> "rpcerror", retval |-> retval]
Propagates(cls) == [k |-> "raise", cls |-> cls]
Invoke(target, params) == [k |-> "invoke", target |-> target, params |-> params]

\* lines 324-335: the request object, or RPCError(reply_bad_json)
DecodeRequest(request) ==
  IF request.doc = NoDoc /\ TextRaisesUnicodeDecodeError(request.text)
  THEN Propagates("UnicodeDecodeError")
  ELSE IF RequestIsJson(request)
  THEN [k |-> "request", req |-> RequestValue(request)]
  ELSE LET stripped == Strip(request.text)
       IN IF \A i \in 1..Len(stripped) : stripped[i] \notin Delimiters
          THEN [k |-> "request", req |-> MakeCallRequest(PyStr(stripped), PyDict({}))]
          ELSE RpcError(reply_bad_json)

\* call in d, for a dict d whose keys are ASCII str objects
KeyIn(call, d) == call.t = "str" /\ ~call.uni /\ call.s \in DOMAIN d

LookupCallUserFirst(call, params, calls) ==
  IF call.t \in {"list", "dict"} THEN RpcError(reply_bad_params)
  ELSE IF KeyIn(call, calls) THEN Invoke(calls[call.s], params)
  ELSE IF KeyIn(call, _helpers) THEN Invoke(_helpers[call.s], params)
  ELSE IF FormatRaises(call) THEN Propagates("UnicodeEncodeError")
  ELSE RpcError(reply_bad_call)
\* lines 350-357: helpers first, then the exported callables
LookupCall(call, params, calls) ==
  IF call.t \in {"list", "dict"} THEN RpcError(reply_bad_params)   \* unhashable: TypeError
  ELSE IF KeyIn(call, _helpers) THEN Invoke(_helpers[call.s], params)
  ELSE IF KeyIn(call, calls) THEN Invoke(calls[call.s], params)
  ELSE IF FormatRaises(call) THEN Propagates("UnicodeEncodeError")
  ELSE RpcError(reply_bad_call)

\* lines 338-349 and 386-393: from the request object to the call
DispatchRequest(req, calls) ==
  IF req.t # "dict"
  THEN IF FormatRaises(req) THEN Propagates("UnicodeEncodeError") ELSE RpcError(reply_bad_request)
  ELSE IF req.type = Absent THEN RpcError(reply_bad_request)          \* KeyError
  ELSE IF req.type # PyStr(<<"call">>)
  THEN IF FormatRaises(req.type) THEN Propagates("UnicodeEncodeError") ELSE RpcError(reply_bad_request)
  ELSE IF req.call = Absent THEN RpcError(reply_bad_request)          \* KeyError
  ELSE LET params == IF req.params = Absent THEN PyDict({}) ELSE req.params
       IN IF params.t # "dict"
          THEN IF FormatRaises(params) THEN Propagates("UnicodeEncodeError") ELSE RpcError(reply_bad_params)
          ELSE LookupCall(req.call, params, calls)

\* len(retval) is defined
HasLen(v) == v.t \in {"str", "bytes", "tuple", "list", "dict", "ndarray"}

\* the bytes socket.send(retval) puts in a frame
FrameData(v) == IF v.t = "ndarray" THEN v.data ELSE v.b

\* socket.send(retval) takes the buffer of retval, which numpy refuses
\* (ValueError) for an array that is not contiguous
HasBuffer(v) == v.t = "ndarray" => v.contiguous

MultipartFramesReversed(parts) ==
  [i \in 1..Len(parts) |-> DataFrame(FrameData(parts[Len(parts) + 1 - i]), i < Len(parts))]
\* send_multipart(parts): every part but the last with SNDMORE
MultipartFrames(parts) ==
  [i \in 1..Len(parts) |-> DataFrame(FrameData(parts[i]), i < Len(parts))]

\* "{}: {}".format(e.__class__.__name__, e.message)
FaultMessage(cls, msg) == <<cls, ":", " ">> \o msg

Sent(frames) == [frames |-> frames, rpcerror |-> FALSE, raised |-> "none"]
SentThenRpcError(frames, cls, msg) ==
  [frames |-> frames, rpcerror |-> TRUE, msg |-> FaultMessage(cls, msg), raised |-> "none"]

\* which handler of lines 382-385 takes an exception raised in the try block
\* of line 360: ZMQError is logged, another Exception becomes an RPCError,
\* anything else leaves handle()
CatchFault(frames, cls, msg) ==
  IF cls = ZMQErrorClass THEN Sent(frames)
  ELSE IF cls \in ExceptionClasses THEN SentThenRpcError(frames, cls, msg)
  ELSE [frames |-> frames, rpcerror |-> FALSE, raised |-> cls]

\* lines 362-381: the frames sent for a returned value
SendReturnValue(attrs, f, retval) ==
  IF HasAttr(attrs, f, RpcImagePayloadAttr) /\ retval.t = "ndarray"
  THEN IF HasBuffer(retval)
       THEN Sent(<<JsonFrame(MakeCallReplyImage(retval), TRUE), DataFrame(FrameData(retval), FALSE)>>)
       ELSE CatchFault(<<JsonFrame(MakeCallReplyImage(retval), TRUE)>>, "ValueError", <<"contiguous">>)
  ELSE IF HasAttr(attrs, f, RpcRawPayloadAttr)
  THEN LET header == <<JsonFrame(MakeCallReplyRaw, TRUE)>>
       IN IF retval.t \in {"tuple", "list"}
          THEN IF retval.items = <<>>
               THEN CatchFault(header, "IndexError", <<"list", " ", "index">>)
               ELSE Sent(header \o MultipartFrames(retval.items))
          ELSE IF ~HasLen(retval)
               THEN CatchFault(header, "TypeError", <<"len">>)
               ELSE IF ~HasBuffer(retval)
               THEN CatchFault(header, "ValueError", <<"contiguous">>)
               ELSE Sent(header \o <<DataFrame(FrameData(retval), FALSE)>>)
  ELSE IF FormatRaises(retval)                       \* line 378: "REP: {}".format(retval)
       THEN CatchFault(<<>>, "UnicodeEncodeError", <<>>)
       ELSE IF JsonSerializable(retval)
       THEN Sent(<<JsonFrame(MakeCallReply(retval), FALSE)>>)
       ELSE CatchFault(<<>>, "TypeError", <<"serializable">>)

\* lines 360-385
SendReply(attrs, target, oc) ==
  IF oc.k = "raise"
  THEN CatchFault(<<>>, oc.cls, oc.msg)
  ELSE SendReturnValue(attrs, target[2], oc.val)

\* the outcomes the invoked target can have for this request
HandleOutcomes(request, calls) ==
  LET d == DecodeRequest(request)
      step == IF d.k = "request" THEN DispatchRequest(d.req, calls) ELSE d
  IN IF step.k = "invoke" THEN CallOutcomes(step.target, step.params, calls) ELSE {NoOutcome}

\* Server.handle(request): the frames it sends, the target it invokes and the
\* exception it lets out.  An RPCError is answered by send_json at line 397.
HandleResult(request, calls, attrs, oc) ==
  LET d == DecodeRequest(request)
      step == IF d.k = "request" THEN DispatchRequest(d.req, calls) ELSE d
  IN CASE step.k = "rpcerror" ->
            [frames |-> <<JsonFrame(step.retval, FALSE)>>, raised |-> "none", target |-> NoTarget]
       [] step.k = "raise" ->
            [frames |-> <<>>, raised |-> step.cls, target |-> NoTarget]
       [] OTHER ->
            LET r == SendReply(attrs, step.target, oc)
            IN [frames |-> IF r.rpcerror
                           THEN r.frames \o <<JsonFrame(MakeErrorReply(r.msg), FALSE)>>
                           ELSE r.frames,
                raised |-> r.raised,
                target |-> step.target]

----------------------------------------------------------------------------
(* Client.request *)

NoMsg == [from |-> "nobody"]
NoResult == [t |-> "pending"]
\* request() ends with an exception that none of its handlers takes
ClientRaises(cls) == [t |-> "raised", cls |-> cls]

FrameBytesOfHeader(frame) == "{status: ok}"
\* the bytes of a frame as recv() returns them
FrameBytes(frame) ==
  IF ~frame.json THEN frame.body
  ELSE IF frame.body.status = "error" THEN "{status: error}"
  ELSE "{status: ok}"

\* np.frombuffer(buffer, dtype).reshape(shape), for a dtype of one byte: the
\* array over these bytes, or ValueError when they are not as many as the
\* shape has elements
FromBuffer(bytes, dtype, shape) ==
  LET ByteLen(b) == CASE b = "pixels" -> 12
                      [] b \in {"b1", "b2"} -> 2
                      [] OTHER -> 40
      RECURSIVE ElementCount(_)
      ElementCount(sh) == IF sh = <<>> THEN 1 ELSE Head(sh) * ElementCount(Tail(sh))
  IN IF ByteLen(bytes) = ElementCount(shape)
     THEN PyArray(shape, dtype, bytes, TRUE)
     ELSE ClientRaises("ValueError")

\* lines 430-470: what request() returns for the reply message it receives
DecodeReply(frames) ==
  LET rep == frames[1].body
      more == Len(frames) > 1
  IN IF ~frames[1].json
     THEN IF frames[1].body = BadUtf8String
          THEN ClientRaises("UnicodeDecodeError")    \* not a JSONDecodeError
          ELSE PyNone                                \* JSONDecodeError is logged
     ELSE IF "status" \notin DOMAIN rep THEN ClientRaises("KeyError")
     ELSE IF rep.status = "error"
     THEN PyException(IF "msg" \in DOMAIN rep THEN rep.msg ELSE <<"Unknown", " ", "error">>)
     ELSE IF "type" \notin DOMAIN rep THEN ClientRaises("KeyError")
     ELSE IF rep.type = "value" /\ "value" \in DOMAIN rep THEN JsonLoads(rep.value)
     ELSE IF rep.type = "image" /\ more
     THEN FromBuffer(FrameBytes(frames[2]), rep.dtype, rep.shape)
     ELSE IF rep.type = "raw" /\ more
     THEN LET payloads == [i \in 1..(Len(frames) - 1) |-> PyBytes(FrameBytes(frames[i + 1]))]
          IN IF Len(payloads) = 1 THEN payloads[1] ELSE PyList(payloads)
     ELSE PyNone

----------------------------------------------------------------------------
(* The registry operations, called from the application's thread.  A       *)
(* refresh() is a loop of single insertions, so it is taken in steps; the  *)
(* application's other calls wait for it, the servers' threads do not.     *)

Export(name, obj) ==
  /\ ~refresh_active
  /\ LET r == DoExport(exported_objects, exported_callables, name, obj)
     IN /\ exported_objects' = r.objs
        /\ exported_callables' = r.calls
  /\ UNCHANGED <<rpc_attrs, refresh_todo, refresh_active, refresh_base>>
  /\ UNCHANGED <<pc, runvars, reqvars, wirevars>>
  /\ last_op' = [op |-> "export", name |-> name, obj |-> obj]

Unexport(name) ==
  /\ ~refresh_active
  /\ LET r == DoUnexport(exported_objects, exported_callables, name)
     IN /\ exported_objects' = r.objs
        /\ exported_callables' = r.calls
  /\ UNCHANGED <<rpc_attrs, refresh_todo, refresh_active, refresh_base>>
  /\ UNCHANGED <<pc, runvars, reqvars, wirevars>>
  /\ last_op' = [op |-> "unexport", name |-> name,
                 found |-> name \in OdKeys(exported_objects) \cup DOMAIN exported_callables]

Enable(f, payload_attr) ==
  /\ ~refresh_active
  /\ rpc_attrs' = EnableAttrs(rpc_attrs, f, payload_attr)
  /\ UNCHANGED <<exported_objects, exported_callables, refresh_todo, refresh_active, refresh_base>>
  /\ UNCHANGED <<pc, runvars, reqvars, wirevars>>
  /\ last_op' = [op |-> "enable", method |-> f]

Disable(f) ==
  /\ ~refresh_active
  /\ rpc_attrs' = DisableAttrs(rpc_attrs, f)
  /\ UNCHANGED <<exported_objects, exported_callables, refresh_todo, refresh_active, refresh_base>>
  /\ UNCHANGED <<pc, runvars, reqvars, wirevars>>
  /\ last_op' = [op |-> "disable", method |-> f]

ClearObjectsOnly ==
  /\ ~refresh_active
  /\ exported_objects' = <<>>
  /\ UNCHANGED <<exported_callables, rpc_attrs, refresh_todo, refresh_active, refresh_base>>
  /\ UNCHANGED <<pc, runvars, reqvars, wirevars>>
  /\ last_op' = [op |-> "clear"]
\* clear()
Clear ==
  /\ ~refresh_active
  /\ exported_callables' = EmptyDict
  /\ exported_objects' = <<>>
  /\ UNCHANGED <<rpc_attrs, refresh_todo, refresh_active, refresh_base>>
  /\ UNCHANGED <<pc, runvars, reqvars, wirevars>>
  /\ last_op' = [op |-> "clear"]

\* refresh(), run by the only thread that touches the registry
Refresh ==
  /\ ~refresh_active
  /\ exported_callables' = Refreshed(rpc_attrs, exported_objects, exported_callables)
  /\ UNCHANGED <<exported_objects, rpc_attrs, refresh_todo, refresh_active, refresh_base>>
  /\ UNCHANGED <<pc, runvars, reqvars, wirevars>>
  /\ last_op' = [op |-> "refresh"]

\* refresh() next to a serving thread: the loops of lines 494-498 find the
\* entries to insert
RefreshBegin ==
  /\ ~refresh_active
  /\ refresh_active' = TRUE
  /\ refresh_todo' = RefreshEntries(rpc_attrs, exported_objects)
  /\ refresh_base' = exported_callables
  /\ UNCHANGED <<exported_objects, exported_callables, rpc_attrs>>
  /\ UNCHANGED <<pc, runvars, reqvars, wirevars>>
  /\ UNCHANGED last_op

\* refresh(): one assignment of line 500
RefreshStep ==
  /\ refresh_active
  /\ refresh_todo # <<>>
  /\ exported_callables' = DictPut(exported_callables, Head(refresh_todo)[1], Head(refresh_todo)[2])
  /\ refresh_todo' = Tail(refresh_todo)
  /\ UNCHANGED <<exported_objects, rpc_attrs, refresh_active, refresh_base>>
  /\ UNCHANGED <<pc, runvars, reqvars, wirevars>>
  /\ UNCHANGED last_op

\* refresh(): line 503, after the last insertion
RefreshEnd ==
  /\ refresh_active
  /\ refresh_todo = <<>>
  /\ refresh_active' = FALSE
  /\ refresh_base' = EmptyDict
  /\ UNCHANGED <<exported_objects, exported_callables, rpc_attrs, refresh_todo>>
  /\ UNCHANGED <<pc, runvars, reqvars, wirevars>>
  /\ last_op' = [op |-> "refresh"]

----------------------------------------------------------------------------
(* Server.run, one server per thread *)

Servers == {"s1", "s2"}
NoTimeout == "None"
recv_timeout == "4000"
default_port == "60606"
NoRequest == TextRequest(<<"-">>)
NoCall == [target |-> NoTarget, oc |-> NoOutcome]

\* a second bind to a tcp endpoint raises ZMQError (address in use); a bind
\* to an ipc endpoint unlinks the socket file that is there and succeeds, and
\* so does a bind to an inproc endpoint, which belongs to the context that
\* run() makes for itself (line 284)
ExclusiveBind(protocol) == protocol = "tcp"

LoopFlagOfClass(s) == Server_loop_flag
\* self._loop_flag: the instance attribute if run() has set it, else the
\* class attribute
LoopFlag(s) == IF loop_flag[s] = "unset" THEN Server_loop_flag ELSE loop_flag[s] = "True"

InLoop(s) == pc[s] \in {"loop", "recv", "handle"}

\* start_server_thread() up to its sleep: the thread is made and started
StartServerThread(s) ==
  /\ pc[s] = "unstarted"
  /\ pc' = [pc EXCEPT ![s] = "thread"]
  /\ rpcServerThread' = [rpcServerThread EXCEPT ![s] = "started"]
  /\ UNCHANGED <<addr, timeout, loop_flag, Server_loop_flag, running_instances, bound_sockets, raised, stop_pending>>
  /\ UNCHANGED <<regvars, reqvars, wirevars>>

\* start_server_thread(): the sleep of 0.01 s is over and the Thread object
\* is returned, wherever the thread is by then
StartServerThreadReturn(s) ==
  /\ rpcServerThread[s] = "started"
  /\ rpcServerThread' = [rpcServerThread EXCEPT ![s] = "returned"]
  /\ UNCHANGED <<addr, timeout, loop_flag, Server_loop_flag, running_instances, bound_sockets, raised, stop_pending>>
  /\ UNCHANGED <<regvars, pc, reqvars, wirevars>>

\* start_server(), called by the application or as the target of the
\* thread: Server(...) is made, its __init__ calling refresh(), and run()
\* is entered
StartServer(s) ==
  /\ pc[s] \in {"unstarted", "thread"}
  /\ ~refresh_active
  /\ exported_callables' = Refreshed(rpc_attrs, exported_objects, exported_callables)
  /\ pc' = [pc EXCEPT ![s] = "new"]
  /\ UNCHANGED <<exported_objects, rpc_attrs, refresh_todo, refresh_active, refresh_base, last_op>>
  /\ UNCHANGED <<runvars, reqvars, wirevars>>

\* lines 277-281
RunCheck(s) ==
  /\ pc[s] = "new"
  /\ pc' = [pc EXCEPT ![s] =
              IF \E instance \in running_instances : addr[s] = addr[instance]
              THEN "refused" ELSE "setup"]
  /\ UNCHANGED <<regvars, runvars, reqvars, wirevars>>

\* lines 284-289
RunBind(s) ==
  /\ pc[s] = "setup"
  /\ IF ExclusiveBind(addr[s][1]) /\ \E t \in bound_sockets : addr[t] = addr[s]
     THEN /\ pc' = [pc EXCEPT ![s] = "raised"]
          /\ raised' = [raised EXCEPT ![s] = ZMQErrorClass]
          /\ UNCHANGED bound_sockets
     ELSE /\ pc' = [pc EXCEPT ![s] = "bound"]
          /\ bound_sockets' = bound_sockets \cup {s}
          /\ UNCHANGED raised
  /\ UNCHANGED <<addr, timeout, rpcServerThread, loop_flag, Server_loop_flag, running_instances, stop_pending>>
  /\ UNCHANGED <<regvars, reqvars, wirevars>>

RunRegisterKeepsFlag(s) ==
  /\ pc[s] = "bound"
  /\ running_instances' = running_instances \cup {s}
  /\ pc' = [pc EXCEPT ![s] = "loop"]
  /\ UNCHANGED <<addr, timeout, rpcServerThread, loop_flag, Server_loop_flag, bound_sockets, raised, stop_pending>>
  /\ UNCHANGED <<regvars, reqvars, wirevars>>
\* lines 290-296
RunRegister(s) ==
  /\ pc[s] = "bound"
  /\ running_instances' = running_instances \cup {s}
  /\ loop_flag' = [loop_flag EXCEPT ![s] = "True"]
  /\ pc' = [pc EXCEPT ![s] = "loop"]
  /\ UNCHANGED <<addr, timeout, rpcServerThread, Server_loop_flag, bound_sockets, raised, stop_pending>>
  /\ UNCHANGED <<regvars, reqvars, wirevars>>

\* line 297: while self._loop_flag; what the last iteration left is dead
LoopTest(s) ==
  /\ pc[s] = "loop"
  /\ pc' = [pc EXCEPT ![s] = IF LoopFlag(s) THEN "recv" ELSE "cleanup"]
  /\ recv_request' = [recv_request EXCEPT ![s] = NoRequest]
  /\ requester' = [requester EXCEPT ![s] = "nobody"]
  /\ sent' = [sent EXCEPT ![s] = <<>>]
  /\ last_call' = [last_call EXCEPT ![s] = NoCall]
  /\ UNCHANGED must_send
  /\ UNCHANGED <<regvars, runvars, wirevars>>

\* line 299: recv() returns the request of the Client
RecvRequest(s) ==
  /\ pc[s] = "recv"
  /\ s \in bound_sockets
  /\ ~must_send[s]
  /\ req_msg # NoMsg
  /\ recv_request' = [recv_request EXCEPT ![s] = req_msg.body]
  /\ requester' = [requester EXCEPT ![s] = req_msg.from]
  /\ must_send' = [must_send EXCEPT ![s] = TRUE]
  /\ req_msg' = NoMsg
  /\ pc' = [pc EXCEPT ![s] = "handle"]
  /\ UNCHANGED <<sent, last_call, rep_msg, cpc, cresult, call_oc, csock, ctimeout, outstanding>>
  /\ UNCHANGED <<regvars, runvars>>

RecvPeerRequestWhileHandling(s, req) ==
  /\ pc[s] \in {"recv", "handle"}
  /\ s \in bound_sockets
  /\ recv_request' = [recv_request EXCEPT ![s] = req]
  /\ requester' = [requester EXCEPT ![s] = "peer"]
  /\ must_send' = [must_send EXCEPT ![s] = TRUE]
  /\ pc' = [pc EXCEPT ![s] = "handle"]
  /\ UNCHANGED <<sent, last_call>>
  /\ UNCHANGED <<regvars, runvars, wirevars>>
\* line 299: recv() returns a request string that another REQ peer sent
RecvPeerRequest(s, req) ==
  /\ pc[s] = "recv"
  /\ s \in bound_sockets
  /\ ~must_send[s]
  /\ recv_request' = [recv_request EXCEPT ![s] = req]
  /\ requester' = [requester EXCEPT ![s] = "peer"]
  /\ must_send' = [must_send EXCEPT ![s] = TRUE]
  /\ pc' = [pc EXCEPT ![s] = "handle"]
  /\ UNCHANGED <<sent, last_call>>
  /\ UNCHANGED <<regvars, runvars, wirevars>>

\* lines 299, 303-305: recv() times out (EAGAIN)
RecvTimeout(s) ==
  /\ pc[s] = "recv"
  /\ timeout[s] # NoTimeout
  /\ ~must_send[s]
  /\ pc' = [pc EXCEPT ![s] = "loop"]
  /\ UNCHANGED <<regvars, runvars, reqvars, wirevars>>

\* lines 299, 306-307: recv() fails with a ZMQError other than EAGAIN
RecvError(s) ==
  /\ pc[s] = "recv"
  /\ ~must_send[s]
  /\ pc' = [pc EXCEPT ![s] = "raised"]
  /\ raised' = [raised EXCEPT ![s] = ZMQErrorClass]
  /\ UNCHANGED <<addr, timeout, rpcServerThread, loop_flag, Server_loop_flag, running_instances, bound_sockets, stop_pending>>
  /\ UNCHANGED <<regvars, reqvars, wirevars>>

\* lines 299, 306-307: a REP socket that has not answered its last request
\* refuses to receive (ZMQError EFSM)
RecvOutOfTurn(s) ==
  /\ pc[s] = "recv"
  /\ must_send[s]
  /\ pc' = [pc EXCEPT ![s] = "raised"]
  /\ raised' = [raised EXCEPT ![s] = ZMQErrorClass]
  /\ UNCHANGED <<addr, timeout, rpcServerThread, loop_flag, Server_loop_flag, running_instances, bound_sockets, stop_pending>>
  /\ UNCHANGED <<regvars, reqvars, wirevars>>

\* lines 308-309: Ctrl+C while the thread waits in recv()
KeyboardInterrupt(s) ==
  /\ pc[s] = "recv"
  /\ pc' = [pc EXCEPT ![s] = "cleanup"]
  /\ UNCHANGED <<regvars, runvars, reqvars, wirevars>>

\* line 302: self.handle(request), the target's outcome being oc
Handle(s, oc) ==
  /\ pc[s] = "handle"
  /\ oc \in HandleOutcomes(recv_request[s], exported_callables)
  /\ LET r == HandleResult(recv_request[s], exported_callables, rpc_attrs, oc)
         complete == r.frames # <<>> /\ ~r.frames[Len(r.frames)].more
     IN /\ sent' = [sent EXCEPT ![s] = r.frames]
        /\ last_call' = [last_call EXCEPT ![s] = [target |-> r.target, oc |-> oc]]
        /\ must_send' = [must_send EXCEPT ![s] = ~complete]
        /\ rep_msg' = IF complete /\ requester[s] = "client" THEN r.frames ELSE rep_msg
        /\ call_oc' = IF requester[s] = "client" THEN oc ELSE call_oc
        /\ pc' = [pc EXCEPT ![s] = IF r.raised = "none" THEN "loop" ELSE "raised"]
        /\ raised' = [raised EXCEPT ![s] = r.raised]
  /\ UNCHANGED <<recv_request, requester, req_msg, cpc, cresult, csock, ctimeout, outstanding>>
  /\ UNCHANGED <<addr, timeout, rpcServerThread, loop_flag, Server_loop_flag, running_instances, bound_sockets, stop_pending>>
  /\ UNCHANGED regvars

\* line 302: self.handle(request) when the socket refuses the first frame of
\* the reply (send raises ZMQError).  In the try block of line 360 the
\* handler of line 382 logs it and handle() returns; at line 397 nothing
\* catches it and run() re-raises it at line 307.  The socket still owes
\* its reply.
HandleSendFails(s, oc) ==
  /\ pc[s] = "handle"
  /\ oc \in HandleOutcomes(recv_request[s], exported_callables)
  /\ LET r == HandleResult(recv_request[s], exported_callables, rpc_attrs, oc)
         first == r.frames[1]
         at_line_397 == first.json /\ first.body.status = "error"
     IN /\ r.frames # <<>>
        /\ sent' = [sent EXCEPT ![s] = <<>>]
        /\ last_call' = [last_call EXCEPT ![s] = [target |-> r.target, oc |-> oc]]
        /\ pc' = [pc EXCEPT ![s] = IF at_line_397 THEN "raised" ELSE "loop"]
        /\ raised' = [raised EXCEPT ![s] = IF at_line_397 THEN ZMQErrorClass ELSE "none"]
  /\ UNCHANGED <<must_send, recv_request, requester>>
  /\ UNCHANGED <<addr, timeout, rpcServerThread, loop_flag, Server_loop_flag, running_instances, bound_sockets, stop_pending>>
  /\ UNCHANGED <<regvars, wirevars>>

\* lines 312-315
Cleanup(s) ==
  /\ pc[s] = "cleanup"
  /\ bound_sockets' = bound_sockets \ {s}
  /\ running_instances' = running_instances \ {s}
  /\ stop_pending' = stop_pending \ {s}
  /\ pc' = [pc EXCEPT ![s] = "stopped"]
  /\ UNCHANGED <<addr, timeout, rpcServerThread, loop_flag, Server_loop_flag, raised>>
  /\ UNCHANGED <<regvars, reqvars, wirevars>>

\* Server.stop() / stop_server()
Stop ==
  /\ Server_loop_flag' = FALSE
  /\ stop_pending' = stop_pending \cup {s \in Servers : InLoop(s)}
  /\ UNCHANGED <<addr, timeout, rpcServerThread, loop_flag, running_instances, bound_sockets, raised>>
  /\ UNCHANGED <<regvars, pc, reqvars, wirevars>>

----------------------------------------------------------------------------
(* The Client *)

CanSendAlways(sock) == TRUE
\* a REQ socket sends only when it is not waiting for a reply: send() raises
\* ZMQError (EFSM) otherwise
CanSend(sock) == sock = "send"

\* Client.call(call, params) up to the send_json of line 427, which puts the
\* request on the wire or raises
ClientCall(call, params) ==
  /\ cpc = "idle"
  /\ IF CanSend(csock)
     THEN /\ req_msg' = [from |-> "client", body |-> DocRequest(MakeCallRequest(PyStr(call), params))]
          /\ cpc' = "waiting"
          /\ csock' = "recv"
          /\ outstanding' = outstanding + 1
          /\ cresult' = NoResult
          /\ call_oc' = NoOutcome
          /\ rep_msg' = <<>>
     ELSE /\ cresult' = ClientRaises(ZMQErrorClass)
          /\ UNCHANGED <<req_msg, rep_msg, cpc, csock, outstanding, call_oc>>
  /\ UNCHANGED ctimeout
  /\ UNCHANGED <<regvars, pc, runvars, reqvars>>

\* Client.request from the recv_json of line 430 on
ClientReturn ==
  /\ cpc = "waiting"
  /\ rep_msg # <<>>
  /\ cresult' = DecodeReply(rep_msg)
  /\ cpc' = "idle"
  /\ rep_msg' = <<>>
  /\ csock' = "send"
  /\ outstanding' = outstanding - 1
  /\ UNCHANGED <<req_msg, call_oc, ctimeout>>
  /\ UNCHANGED <<regvars, pc, runvars, reqvars>>

\* lines 462-468: the receive timeout set at line 418 runs out in recv_json
\* before a reply has arrived (EAGAIN); request() returns None
ClientTimeout ==
  /\ cpc = "waiting"
  /\ ctimeout # NoTimeout
  /\ rep_msg = <<>>
  /\ cresult' = PyNone
  /\ cpc' = "idle"
  /\ UNCHANGED <<req_msg, rep_msg, call_oc, csock, ctimeout, outstanding>>
  /\ UNCHANGED <<regvars, pc, runvars, reqvars>>

\* a REP peer that is not this module's Server takes the request and
\* answers it with a message of its own making
PeerReply(frames) ==
  /\ req_msg # NoMsg
  /\ rep_msg = <<>>
  /\ req_msg' = NoMsg
  /\ rep_msg' = frames
  /\ UNCHANGED <<cpc, cresult, call_oc, csock, ctimeout, outstanding>>
  /\ UNCHANGED <<regvars, pc, runvars, reqvars>>

----------------------------------------------------------------------------
(* Bounds and input sets *)

MaxTextLen == 3

RECURSIVE SeqsUpTo(_, _)
SeqsUpTo(S, n) ==
  IF n = 0 THEN {<<>>}
  ELSE LET shorter == SeqsUpTo(S, n - 1)
       IN shorter \cup {Append(q, x) : q \in {r \in shorter : Len(r) = n - 1}, x \in S}

WordTokens == {"foo", "rpc", "list", "123", "null"}
TextTokens == WordTokens \cup {Dot, BadUtf8String} \cup Delimiters
\* two adjacent words would be one longer word
Texts == {t \in SeqsUpTo(TextTokens, MaxTextLen) :
            \A i \in 1..(Len(t) - 1) : ~(t[i] \in WordTokens /\ t[i + 1] \in WordTokens)}

CallNames == {<<"foo">>, <<"get">>, <<"grab">>, <<"read">>, <<"fail">>, <<"push">>,
              <<"rpc", Dot, "list">>, <<"nope">>}
TypeValues == {Absent, PyStr(<<"call">>), PyStr(<<"ping">>), PyUnicode(NonAscii)}
CallValues == {Absent, PyUnicode(NonAscii), PyList(<<>>), PyInt(1)} \cup {PyStr(n) : n \in CallNames}
ParamsValues == {Absent, PyDict({}), PyDict({"item"}), PyList(<<>>), PyUnicode(NonAscii)}
Docs == {RequestDict(ty, c, ps) : ty \in TypeValues, c \in CallValues, ps \in ParamsValues}
          \cup {PyInt(1), PyNone, PyList(<<>>), PyStr(<<"foo">>), PyUnicode(NonAscii)}

\* every request string a REQ peer may send
PeerRequests == {DocRequest(d) : d \in Docs} \cup {TextRequest(t) : t \in Texts}

InitialAttrs ==
  [f \in FunctionIds |->
     CASE f \in {"count", "push"} -> {RpcEnabledAttr}
       [] f = RawFunction -> {RpcEnabledAttr, RpcRawPayloadAttr}
       [] f = ImageFunction -> {RpcEnabledAttr, RpcImagePayloadAttr}
       [] OTHER -> {}]

\* the exported callables of the serving application
ServedCallables ==
  [n \in {<<"foo">>, <<"get">>, <<"grab">>, <<"read">>, <<"fail">>, <<"push">>} |->
     IF n = <<"push">> THEN MethodTarget(TheInstance, "push") ELSE FunctionTarget(n[1])]

TcpAddr == <<"tcp", default_port>>
IpcAddr == <<"ipc", default_port>>

\* one server in its serve loop, the other not started
InitServing ==
  /\ pc = [s \in Servers |-> IF s = "s1" THEN "recv" ELSE "new"]
  /\ addr = [s \in Servers |-> TcpAddr]
  /\ timeout = [s \in Servers |-> recv_timeout]
  /\ rpcServerThread = [s \in Servers |-> "none"]
  /\ loop_flag = [s \in Servers |-> IF s = "s1" THEN "True" ELSE "unset"]
  /\ Server_loop_flag = TRUE
  /\ running_instances = {"s1"}
  /\ bound_sockets = {"s1"}
  /\ raised = [s \in Servers |-> "none"]
  /\ stop_pending = {}

InitWire ==
  /\ must_send = [s \in Servers |-> FALSE]
  /\ recv_request = [s \in Servers |-> NoRequest]
  /\ requester = [s \in Servers |-> "nobody"]
  /\ sent = [s \in Servers |-> <<>>]
  /\ last_call = [s \in Servers |-> NoCall]
  /\ req_msg = NoMsg
  /\ rep_msg = <<>>
  /\ cpc = "idle"
  /\ cresult = NoResult
  /\ call_oc = NoOutcome
  /\ csock = "send"
  /\ outstanding = 0

\* a Client made with the default timeout (line 408)
InitIdle ==
  /\ InitWire
  /\ ctimeout = NoTimeout

InitRegistryWith(objs, calls) ==
  /\ exported_objects = objs
  /\ exported_callables = calls
  /\ rpc_attrs = InitialAttrs
  /\ refresh_todo = <<>>
  /\ refresh_active = FALSE
  /\ refresh_base = EmptyDict
  /\ last_op = [op |-> "none"]

----------------------------------------------------------------------------------------------------------------------------------------------------
(* Serving: one server in its loop with the application's callables, and   *)
(* REQ peers sending it request strings.                                   *)

Init ==
  /\ InitRegistryWith(<<>>, ServedCallables)
  /\ InitServing
  /\ InitIdle

Next ==
  \/ \E req \in PeerRequests : RecvPeerRequest("s1", req)
  \/ LoopTest("s1")
  \/ RecvTimeout("s1")
  \/ RecvError("s1")
  \/ RecvOutOfTurn("s1")
  \/ KeyboardInterrupt("s1")
  \/ \E oc \in HandleOutcomes(recv_request["s1"], exported_callables) : Handle("s1", oc)
  \/ Cleanup("s1")

Spec == Init /\ [][Next]_vars

-----------------------------------------------------------------------------
(* Calling: the same server, and the Client calling it.                    *)

ClientParams == {PyDict({}), PyDict({"item"})}

\* ImageClient.image_recv_timeout
image_recv_timeout == "10000"

\* the Client blocks in recv_json (the default), or has a receive timeout
InitClient ==
  /\ InitRegistryWith(<<>>, ServedCallables)
  /\ InitServing
  /\ InitWire
  /\ ctimeout \in {NoTimeout, image_recv_timeout}

NextClient ==
  \/ \E n \in CallNames, ps \in ClientParams : ClientCall(n, ps)
  \/ ClientReturn
  \/ ClientTimeout
  \/ LoopTest("s1")
  \/ RecvRequest("s1")
  \/ RecvTimeout("s1")
  \/ \E oc \in HandleOutcomes(recv_request["s1"], exported_callables) : Handle("s1", oc)

SpecClient == InitClient /\ [][NextClient]_vars

----------------------------------------------------------------------------
(* Replies: the Client connected to a REP peer that is some other program. *)

\* the reply messages of such a peer
PeerReplies ==
  { <<JsonFrame(MakeErrorReply(<<"Bad", " ", "call">>), FALSE)>>,
    <<JsonFrame([status |-> "error"], FALSE)>>,
    <<JsonFrame(MakeCallReply(PyInt(7)), FALSE)>>,
    <<JsonFrame(MakeCallReply(PyNone), FALSE)>>,
    <<JsonFrame([type |-> "value", value |-> JsonDumps(PyInt(7))], FALSE)>>,
    <<JsonFrame([status |-> "ok"], FALSE)>>,
    <<JsonFrame(MakeCallReplyRaw, TRUE), DataFrame("b1", FALSE)>>,
    <<JsonFrame(MakeCallReplyRaw, TRUE), DataFrame("b1", TRUE), DataFrame("b2", FALSE)>>,
    <<JsonFrame(MakeCallReplyRaw, FALSE)>>,
    <<JsonFrame(MakeCallReplyImage(Image3D), TRUE), DataFrame("pixels", FALSE)>>,
    <<DataFrame("b1", FALSE)>>,
    <<DataFrame(BadUtf8String, FALSE)>> }

NextReplies ==
  \/ \E n \in CallNames, ps \in ClientParams : ClientCall(n, ps)
  \/ \E frames \in PeerReplies : PeerReply(frames)
  \/ ClientReturn
  \/ ClientTimeout

SpecReplies == InitClient /\ [][NextReplies]_vars

----------------------------------------------------------------------------
(* Lifecycle: two servers, each run() on a thread of its own, stop() and    *)
(* Ctrl+C from outside.                                                     *)

LifecycleRequests ==
  {DocRequest(MakeCallRequest(PyStr(n), PyDict({}))) : n \in {<<"foo">>, <<"nope">>}}

InitLifecycle ==
  /\ InitRegistryWith(<<>>, ServedCallables)
  /\ InitIdle
  /\ pc = [s \in Servers |-> "unstarted"]
  /\ addr \in [Servers -> {TcpAddr, IpcAddr}]
  /\ timeout \in [Servers -> {recv_timeout, NoTimeout}]
  /\ rpcServerThread = [s \in Servers |-> "none"]
  /\ loop_flag = [s \in Servers |-> "unset"]
  /\ Server_loop_flag = TRUE
  /\ running_instances = {}
  /\ bound_sockets = {}
  /\ raised = [s \in Servers |-> "none"]
  /\ stop_pending = {}

NextLifecycle ==
  \/ \E s \in Servers : StartServerThread(s)
  \/ \E s \in Servers : StartServerThreadReturn(s)
  \/ \E s \in Servers : StartServer(s)
  \/ \E s \in Servers : RunCheck(s)
  \/ \E s \in Servers : RunBind(s)
  \/ \E s \in Servers : RunRegister(s)
  \/ \E s \in Servers : LoopTest(s)
  \/ \E s \in Servers, req \in LifecycleRequests : RecvPeerRequest(s, req)
  \/ \E s \in Servers : RecvTimeout(s)
  \/ \E s \in Servers : RecvError(s)
  \/ \E s \in Servers : RecvOutOfTurn(s)
  \/ \E s \in Servers : KeyboardInterrupt(s)
  \/ \E s \in Servers : \E oc \in HandleOutcomes(recv_request[s], exported_callables) : Handle(s, oc)
  \/ \E s \in Servers : \E oc \in HandleOutcomes(recv_request[s], exported_callables) : HandleSendFails(s, oc)
  \/ \E s \in Servers : Cleanup(s)
  \/ Stop

SpecLifecycle == InitLifecycle /\ [][NextLifecycle]_vars

----------------------------------------------------------------------------
(* Registry: the application exports, unexports, enables, disables and      *)
(* refreshes from one thread.                                               *)

QName == <<"q">>
HelperName == <<"rpc", Dot, "list">>
PushName == QualifiedName(QName, "push")

\* the export() calls of the application
Exports ==
  { <<NoName, ClassObj>>, <<QName, InstanceObj>>,
    <<NoName, FunctionObj("foo")>>, <<HelperName, FunctionObj("foo")>>,
    <<QName, FunctionObj("bar")>>, <<PushName, FunctionObj("foo")>>,
    <<<<"m">>, MethodObj(TheInstance, "push")>> }

\* the names it unexports
UnexportNames ==
  {ClassName, QName, <<"foo">>, HelperName, PushName, QualifiedName(ClassName, "count"), <<"m">>}

InitRegistry ==
  /\ InitRegistryWith(<<>>, EmptyDict)
  /\ InitServing
  /\ InitIdle

NextRegistry ==
  \/ \E e \in Exports : Export(e[1], e[2])
  \/ \E n \in UnexportNames : Unexport(n)
  \/ \E m \in MethodNames : Enable(m, NoAttr)
  \/ \E m \in MethodNames : Disable(m)
  \/ Clear
  \/ Refresh

SpecRegistry == InitRegistry /\ [][NextRegistry]_vars

----------------------------------------------------------------------------
(* Refresh next to a serving thread: the application refreshes, enables    *)
(* and disables while a server dispatches.                                 *)

RefreshRequests ==
  {DocRequest(MakeCallRequest(PyStr(n), PyDict({}))) :
     n \in {QualifiedName(ClassName, "count"), QualifiedName(QName, "pop"), HelperName}}

\* q1 is a second instance of QueueService, exported as "r"
InitRefresh ==
  /\ InitRegistryWith(<<<<ClassName, TheClass>>, <<QName, TheInstance>>, <<<<"r">>, "q1">>>>,
                      EmptyDict)
  /\ InitServing
  /\ InitIdle

NextRefresh ==
  \/ RefreshBegin
  \/ RefreshStep
  \/ RefreshEnd
  \/ \E m \in MethodNames : Enable(m, NoAttr)
  \/ \E m \in MethodNames : Disable(m)
  \/ \E req \in RefreshRequests : RecvPeerRequest("s1", req)
  \/ \E oc \in HandleOutcomes(recv_request["s1"], exported_callables) : Handle("s1", oc)
  \/ LoopTest("s1")

SpecRefresh == InitRefresh /\ [][NextRefresh]_vars

----------------------------------------------------------------------------
(* Shared tables: two servers of one process serving at two addresses,     *)
(* and the application changing the registry.                              *)

SharedExports == {<<NoName, FunctionObj("foo")>>, <<QName, InstanceObj>>, <<HelperName, FunctionObj("bar")>>}

SharedRequests ==
  {DocRequest(MakeCallRequest(PyStr(n), PyDict({}))) : n \in {<<"foo">>, PushName, HelperName}}

InitShared ==
  /\ InitRegistryWith(<<>>, EmptyDict)
  /\ InitIdle
  /\ pc = [s \in Servers |-> "recv"]
  /\ addr = [s \in Servers |-> IF s = "s1" THEN TcpAddr ELSE IpcAddr]
  /\ timeout = [s \in Servers |-> recv_timeout]
  /\ rpcServerThread = [s \in Servers |-> "none"]
  /\ loop_flag = [s \in Servers |-> "True"]
  /\ Server_loop_flag = TRUE
  /\ running_instances = Servers
  /\ bound_sockets = Servers
  /\ raised = [s \in Servers |-> "none"]
  /\ stop_pending = {}

NextShared ==
  \/ \E e \in SharedExports : Export(e[1], e[2])
  \/ Refresh
  \/ Clear
  \/ \E s \in Servers, req \in SharedRequests : RecvPeerRequest(s, req)
  \/ \E s \in Servers : \E oc \in HandleOutcomes(recv_request[s], exported_callables) : Handle(s, oc)
  \/ \E s \in Servers : LoopTest(s)

SpecShared == InitShared /\ [][NextShared]_vars

----------------------------------------------------------------------------
(* Replies *)

\* handle() has returned or raised for the request it was given
Handled(s) == pc[s] \in {"loop", "raised"} /\ recv_request[s] # NoRequest

\* the last part of a message is sent without SNDMORE, the others with it
CompleteMessage(frames) ==
  /\ frames # <<>>
  /\ \A i \in 1..Len(frames) : frames[i].more = (i < Len(frames))

IsHeader(frame, type) == frame.json /\ frame.body.status = "ok" /\ frame.body.type = type

IsValueReply(frames) == Len(frames) = 1 /\ IsHeader(frames[1], "value")
IsErrorReply(frames) == Len(frames) = 1 /\ frames[1].json /\ frames[1].body.status = "error"
IsRawReply(frames) ==
  /\ IsHeader(frames[1], "raw")
  /\ \A i \in 2..Len(frames) : ~frames[i].json
IsImageReply(frames) == Len(frames) = 2 /\ IsHeader(frames[1], "image") /\ ~frames[2].json

WholeReply(frames) ==
  /\ CompleteMessage(frames)
  /\ IsValueReply(frames) \/ IsErrorReply(frames) \/ IsRawReply(frames) \/ IsImageReply(frames)

ErrorReplyWith(msg) == <<JsonFrame(MakeErrorReply(msg), FALSE)>>

----------------------------------------------------------------------------
(* Properties of the serving server *)

\* C3: for every request the server receives, handle() sends exactly one
\* reply, and the reply is wholly a Value, a Raw, an Image or an Error reply.
C3_OneWholeReply ==
  \A s \in Servers : pc[s] = "loop" /\ recv_request[s] # NoRequest => WholeReply(sent[s])

\* C8: no request and no exception of an invoked target makes run() leave its
\* loop; the loop is left only by stop(), a keyboard interrupt or a
\* non-timeout transport error.
C8_LoopLeftOnlyByTransportError ==
  \A s \in Servers : pc[s] = "raised" => raised[s] = ZMQErrorClass

\* C9: when the invoked target raises, handle() catches the fault, answers
\* with the Error reply "<fault class name>: <fault message>" and returns.
C9_FaultAnswered ==
  \A s \in Servers :
    Handled(s) /\ last_call[s].oc.k = "raise" =>
      /\ pc[s] = "loop"
      /\ sent[s] = ErrorReplyWith(FaultMessage(last_call[s].oc.cls, last_call[s].oc.msg))

\* C10: every request string that is not well-formed JSON is answered with
\* the 'JSON error' reply and does not crash the server.
C10_NonJsonGetsJsonError ==
  \A s \in Servers :
    Handled(s) /\ ~RequestIsJson(recv_request[s]) =>
      /\ pc[s] = "loop"
      /\ sent[s] = <<JsonFrame(reply_bad_json, FALSE)>>

\* the handled request is a JSON object with type 'call' and a call member
IsCallRequest(s) ==
  /\ Handled(s)
  /\ recv_request[s].doc # NoDoc
  /\ recv_request[s].doc.t = "dict"
  /\ recv_request[s].doc.type = PyStr(<<"call">>)
  /\ recv_request[s].doc.call # Absent

\* the call value is a key of the helpers or of the exported callables
KnownCall(s) ==
  \/ KeyIn(recv_request[s].doc.call, _helpers)
  \/ KeyIn(recv_request[s].doc.call, exported_callables)

\* the params member is missing (an empty mapping is taken) or is a mapping
ParamsIsMapping(s) == recv_request[s].doc.params = Absent \/ recv_request[s].doc.params.t = "dict"

Answered(s, reply) ==
  /\ pc[s] = "loop"
  /\ sent[s] = <<JsonFrame(reply, FALSE)>>
  /\ last_call[s].target = NoTarget

\* C11: a call request whose call value is no key of the helpers or of the
\* exported callables is answered with the 'Unknown call' reply, and a call
\* request for a known name whose params value is not a mapping is answered
\* with the 'Bad params' reply; no target is invoked in either case.
C11_UnknownCallAndBadParams ==
  \A s \in Servers :
    IsCallRequest(s) =>
      /\ ~KnownCall(s) /\ ParamsIsMapping(s) => Answered(s, reply_bad_call)
      /\ KnownCall(s) /\ ~ParamsIsMapping(s) => Answered(s, reply_bad_params)

\* C12: a call request for a known name whose params mapping does not match
\* the parameters of the target is answered with the fixed 'Bad params'
\* reply, the one a params value that is not a mapping gets.
C12_MismatchGetsBadParams ==
  \A s \in Servers :
    /\ IsCallRequest(s) /\ KnownCall(s) /\ ParamsIsMapping(s)
    /\ last_call[s].target # NoTarget
    /\ LET params == recv_request[s].doc.params
       IN (IF params = Absent THEN {} ELSE params.keys) # Signature(last_call[s].target[2])
    => /\ pc[s] = "loop"
       /\ sent[s] = <<JsonFrame(reply_bad_params, FALSE)>>

\* the handled request is JSON, and its value lacks the type key or the call
\* key, has an unknown type, or is no object
IsBadRequest(s) ==
  /\ Handled(s)
  /\ RequestIsJson(recv_request[s])
  /\ LET req == RequestValue(recv_request[s])
     IN \/ req.t # "dict"
        \/ req.type = Absent
        \/ req.type # PyStr(<<"call">>)
        \/ req.call = Absent

\* C13: a request that parses to a value that lacks the type key or the call
\* key, has an unknown type, or is no object at all, is answered with the
\* 'Bad request' reply, and no target is invoked.
C13_BadRequestAnswered ==
  \A s \in Servers : IsBadRequest(s) => Answered(s, reply_bad_request)

\* the target handle() invoked for the handled request returned a value
Returned(s) == Handled(s) /\ last_call[s].target # NoTarget /\ last_call[s].oc.k = "return"
Marked(s, attr) == HasAttr(rpc_attrs, last_call[s].target[2], attr)

\* C14 as stated: the reply variant for a successful invocation is fixed by
\* the marking alone: an image-marked target always gets an Image reply, a
\* raw-marked target a Raw reply, an unmarked target a Value reply, whatever
\* the type of the value returned.
C14_VariantByMarkingOnly ==
  \A s \in Servers :
    Returned(s) =>
      /\ CompleteMessage(sent[s])
      /\ IF Marked(s, RpcImagePayloadAttr) THEN IsImageReply(sent[s])
         ELSE IF Marked(s, RpcRawPayloadAttr) THEN IsRawReply(sent[s])
         ELSE IsValueReply(sent[s])

\* C14, amended: the header of the reply for a successful invocation is fixed
\* by the marking and by whether the returned value is an array.  An
\* image-marked target that returns an array gets the Image header; one that
\* returns anything else is answered as a target without the image marking;
\* a raw-marked target gets the Raw header; an unmarked target gets the
\* Value reply of its value or, when the value cannot be logged or written
\* as JSON, an Error reply.
C14_HeaderByMarkingAndArray ==
  \A s \in Servers :
    Returned(s) =>
      /\ sent[s] # <<>>
      /\ IF Marked(s, RpcImagePayloadAttr) /\ last_call[s].oc.val.t = "ndarray"
         THEN IsHeader(sent[s][1], "image")
         ELSE IF Marked(s, RpcRawPayloadAttr)
         THEN IsHeader(sent[s][1], "raw")
         ELSE IF FormatRaises(last_call[s].oc.val) \/ ~JsonSerializable(last_call[s].oc.val)
         THEN IsErrorReply(sent[s])
         ELSE sent[s] = <<JsonFrame(MakeCallReply(last_call[s].oc.val), FALSE)>>

\* an image-marked target returned None and was answered with a Value reply
C14_Witness ==
  \E s \in Servers :
    /\ Returned(s)
    /\ Marked(s, RpcImagePayloadAttr)
    /\ last_call[s].oc.val = PyNone
    /\ IsValueReply(sent[s])

----------------------------------------------------------------------------
(* Properties of the Client *)

\* C6: for every exported target and every params mapping matching its
\* signature, Client.call returns what the target returned.
C6_CallEqualsDirect ==
  cpc = "idle" /\ cresult # NoResult /\ outstanding = 0 /\ call_oc.k = "return" => cresult = call_oc.val

\* C15: for every array an image-marked target returns, the Image reply
\* decodes in Client.request to an array with the same dimensions, the same
\* element type and the same bytes.
C15_ImageRoundTrip ==
  /\ cpc = "idle" /\ cresult # NoResult /\ outstanding = 0
  /\ Returned("s1") /\ requester["s1"] = "client"
  /\ Marked("s1", RpcImagePayloadAttr)
  /\ call_oc.val.t = "ndarray"
  => /\ cresult.t = "ndarray"
     /\ cresult.shape = call_oc.val.shape
     /\ cresult.dtype = call_oc.val.dtype
     /\ cresult.data = call_oc.val.data

\* the Client has the result of a call whose raw-marked target returned
RawCallDone ==
  /\ cpc = "idle" /\ cresult # NoResult /\ outstanding = 0
  /\ Returned("s1") /\ requester["s1"] = "client"
  /\ Marked("s1", RpcRawPayloadAttr)

\* C16: when a raw-marked target returns a single buffer, Client.call returns
\* that buffer; when it returns a list of k > 1 buffers, Client.call returns
\* a list of the same k buffers in the same order.
C16_RawRoundTrip ==
  RawCallDone =>
    /\ call_oc.val.t = "bytes" => cresult = call_oc.val
    /\ call_oc.val.t \in {"tuple", "list"} /\ Len(call_oc.val.items) > 1
         => cresult = PyList(call_oc.val.items)

\* a call has returned the two buffers its raw-marked target returned
C16_Witness ==
  /\ RawCallDone
  /\ call_oc.val = PyList(<<Buf1, Buf2>>)
  /\ cresult = PyList(<<Buf1, Buf2>>)

\* the first frame of the reply parses to an object with status 'error'
HasErrorStatus(frames) ==
  /\ frames[1].json
  /\ "status" \in DOMAIN frames[1].body
  /\ frames[1].body.status = "error"

\* C18: for every request, Client.request returns an Exception object with
\* the server's msg exactly when the reply it received has status 'error',
\* and returns None, no Exception object and no raised error, when the
\* receive times out or the reply is not parseable JSON.
C18_ErrorAndNoReplyDistinct ==
  [][/\ ClientReturn =>
          /\ cresult'.t = "Exception" <=> HasErrorStatus(rep_msg)
          /\ HasErrorStatus(rep_msg) /\ "msg" \in DOMAIN rep_msg[1].body
                => cresult' = PyException(rep_msg[1].body.msg)
          /\ ~rep_msg[1].json => cresult' = PyNone
     /\ ClientTimeout => cresult' = PyNone]_vars

\* C19: a Client never puts a request on the wire while an earlier request
\* of its own is outstanding, its reply not yet received and consumed; this
\* holds for every sequence of call() invocations, also for a call() made
\* after a call returned None on a receive timeout.
C19_OneRequestOutstanding == outstanding <= 1

\* a call() was made after a call had timed out: its send raised, and the
\* request that timed out is the one outstanding
C19_Witness ==
  /\ cpc = "idle"
  /\ cresult = ClientRaises(ZMQErrorClass)
  /\ csock = "recv"
  /\ outstanding = 1

----------------------------------------------------------------------------
(* Properties of run() and stop() *)

\* C1: when stop() is called while a server with a finite receive timeout
\* is in its serve loop, the server leaves the loop at its next loop test
\* (after the request in progress and at most one receive timeout).
C1_StopEndsLoop ==
  [][\A s \in Servers :
       s \in stop_pending /\ timeout[s] # NoTimeout /\ pc[s] = "loop" /\ pc'[s] # "loop"
         => pc'[s] = "cleanup"]_vars

\* C2: of the servers with one address at most one is bound and serving at
\* any time; no two servers are in the serve loop for the same address.
C2_OneServerPerAddress ==
  \A s, t \in Servers : s # t /\ addr[s] = addr[t] => ~(InLoop(s) /\ InLoop(t))

----------------------------------------------------------------------------
(* Properties of the registry *)

\* the name export(name, obj) uses
ExportedName(name, obj) == IF name = NoName THEN DefaultName(obj) ELSE name

\* a class, a method and a function are callable, an instance is not
IsCallable(obj) == obj[1] # "instance"

\* the target that calling obj invokes
CallableTarget(obj) ==
  CASE obj[1] = "callable" -> FunctionTarget(obj[3])
    [] obj[1] = "method" -> MethodTarget(obj[2], obj[3])
    [] OTHER -> MethodTarget(obj[2], "__init__")

\* how handle() dispatches a call request naming name, with no params
Dispatched(name, calls) == LookupCall(PyStr(name), PyDict({}), calls)

\* the dispatch table when a refresh() follows this step
AfterRefresh == Refreshed(rpc_attrs', exported_objects', exported_callables')

\* the names refresh() writes
DerivedNames(attrs, objs) ==
  LET entries == RefreshEntries(attrs, objs)
  IN {entries[i][1] : i \in 1..Len(entries)}

\* C4 (as stated): for every name n and callable f, after export(n, f) and
\* refresh() a call request naming n is dispatched to f, and after
\* unexport(n) and refresh() it is answered with 'Unknown call'.
C4_ExportUnexport ==
  [][/\ \A e \in Exports :
          Export(e[1], e[2]) /\ IsCallable(e[2]) =>
            Dispatched(ExportedName(e[1], e[2]), AfterRefresh)
              = Invoke(CallableTarget(e[2]), PyDict({}))
     /\ \A n \in UnexportNames :
          Unexport(n) => Dispatched(n, AfterRefresh) = RpcError(reply_bad_call)]_vars

\* C4 (amended): for every name n that is neither a helper name nor the
\* qualified name of an enabled method of an exported object, and every plain
\* function f: after export(n, f) and refresh() a call request naming n is
\* dispatched to f; and when no exported object is named n, after unexport(n)
\* and refresh() it is answered with 'Unknown call'.
C4_PlainFunctionExportUnexport ==
  [][/\ \A e \in Exports :
          /\ Export(e[1], e[2])
          /\ e[2][1] = "callable"
          /\ ExportedName(e[1], e[2]) \notin DOMAIN _helpers
          /\ ExportedName(e[1], e[2]) \notin DerivedNames(rpc_attrs', exported_objects')
          => Dispatched(ExportedName(e[1], e[2]), AfterRefresh)
               = Invoke(FunctionTarget(e[2][3]), PyDict({}))
     /\ \A n \in UnexportNames :
          /\ Unexport(n)
          /\ n \notin DOMAIN _helpers
          /\ n \notin OdKeys(exported_objects)
          /\ n \notin DerivedNames(rpc_attrs', exported_objects')
          => Dispatched(n, AfterRefresh) = RpcError(reply_bad_call)]_vars

\* next to an exported object whose methods a refresh() has written, the
\* plain function bar is exported as "q" and dispatched by that name, and
\* unexport("foo") has just removed the plain function foo, whose name is
\* unknown from then on
C4_Witness ==
  /\ exported_objects # <<>>
  /\ DerivedNames(rpc_attrs, exported_objects) # {}
  /\ DerivedNames(rpc_attrs, exported_objects) \subseteq DOMAIN exported_callables
  /\ Dispatched(QName, exported_callables) = Invoke(FunctionTarget("bar"), PyDict({}))
  /\ last_op = [op |-> "unexport", name |-> <<"foo">>, found |-> TRUE]
  /\ Dispatched(<<"foo">>, Refreshed(rpc_attrs, exported_objects, exported_callables))
       = RpcError(reply_bad_call)

\* the dispatch table has "o.m" for the method m of o
HasMethodEntry(calls, obj_name, obj, m) ==
  /\ QualifiedName(obj_name, m) \in DOMAIN calls
  /\ calls[QualifiedName(obj_name, m)] = MethodTarget(obj, m)

\* C5: for an exported object o and a method m of o, in every registry
\* state, after enable(m) and refresh() the name "o.m" is in the dispatch
\* table, and after disable(m) and refresh() it is not.
C5_EnableDisableToggles ==
  [][\A m \in MethodNames : \A i \in 1..Len(exported_objects) :
       LET obj_name == exported_objects[i][1]
           obj == exported_objects[i][2]
       IN BoundSelf(obj, m) = obj =>
            /\ Enable(m, NoAttr) => HasMethodEntry(AfterRefresh, obj_name, obj, m)
            /\ Disable(m) => ~HasMethodEntry(AfterRefresh, obj_name, obj, m)]_vars

\* C7: a dispatch that runs while refresh() runs on another thread sees the
\* whole dispatch table of before the refresh or the whole table of after it.
C7_DispatchSeesWholeTable ==
  [][\A s \in Servers :
       pc[s] = "handle" /\ pc'[s] # "handle" /\ refresh_active =>
         exported_callables \in {refresh_base, Refreshed(rpc_attrs, exported_objects, refresh_base)}]_vars


\* C17: in every registry state a call request naming the built-in helper
\* 'rpc.list' is dispatched to the helper, also when a user target has been
\* exported under that name: no export, unexport, refresh or clear makes the
\* name dispatch to a user target or makes it unknown.
C17_HelperTakesPrecedence ==
  Dispatched(HelperName, exported_callables) = Invoke(FunctionTarget(ListFunction), PyDict({}))

\* a user target is exported under the name of the helper
C17_Witness ==
  /\ HelperName \in DOMAIN exported_callables
  /\ exported_callables[HelperName] = FunctionTarget("foo")
  /\ Dispatched(HelperName, exported_callables).target = FunctionTarget(ListFunction)

\* C20: refresh() is idempotent: in every registry state a second refresh()
\* right after a refresh() leaves the dispatch table as the first one left
\* it, and refresh() invokes no exported target.
C20_RefreshIdempotent ==
  [][Refresh => /\ AfterRefresh = exported_callables'
                /\ UNCHANGED <<last_call, call_oc>>]_vars

\* a refresh() has written the entries of the enabled methods
C20_Witness ==
  /\ last_op.op = "refresh"
  /\ DerivedNames(rpc_attrs, exported_objects) # {}
  /\ DerivedNames(rpc_attrs, exported_objects) \subseteq DOMAIN exported_callables

----------------------------------------------------------------------------
(* Properties of unexport and of repeated exports *)

\* C21: unexport(name) for a name that is neither an exported object nor an
\* entry of the dispatch table leaves the exported objects, the dispatch
\* table and the helpers as they are and raises nothing: it logs a warning.
C21_UnknownUnexportIsNoop ==
  [][\A n \in UnexportNames :
       /\ Unexport(n)
       /\ n \notin OdKeys(exported_objects)
       /\ n \notin DOMAIN exported_callables
       => /\ UNCHANGED <<exported_objects, exported_callables, rpc_attrs>>
          /\ last_op' = [op |-> "unexport", name |-> n, found |-> FALSE]]_vars

\* an unexport of an unknown name has left a registry that is not empty
C21_Witness ==
  /\ last_op.op = "unexport"
  /\ ~last_op.found
  /\ exported_objects # <<>>
  /\ exported_callables # EmptyDict

\* the dispatch entries "name.<method>" that refresh() derived from obj
DerivedFrom(calls, name, obj) ==
  {qn \in DOMAIN calls : \E m \in MethodNames : qn = QualifiedName(name, m) /\ calls[qn] = MethodTarget(obj, m)}

\* C22: unexport(o) for an exported object o removes o and exactly the
\* dispatch entries derived from o, its "o.<method>" entries, and leaves
\* every other exported object, the entries derived from other objects and
\* every separately exported callable in place.
C22_UnexportRemovesOnlyDerived ==
  [][\A n \in UnexportNames :
       Unexport(n) /\ n \in OdKeys(exported_objects)
       => LET obj == exported_objects[OdGet(exported_objects, n)][2]
          IN /\ exported_objects' = OdDel(exported_objects, n)
             /\ exported_callables' = DictDel(exported_callables, DerivedFrom(exported_callables, n, obj))]_vars

\* C23: exporting a second target or object under a name in use replaces
\* the first: after export(n, x), export(n, y) and refresh(), only y, or the
\* entries derived from y, is reachable under n, and no dispatch entry
\* derived from x remains.
C23_ReexportReplaces ==
  [][\A e \in Exports :
       LET n == IF e[1] = NoName THEN DefaultName(e[2]) ELSE e[1]
           y == e[2]
           x_is_object == n \in OdKeys(exported_objects)
           x_is_callable == n \in DOMAIN exported_callables
           x_obj == exported_objects[OdGet(exported_objects, n)][2]
       IN /\ Export(e[1], y)
          /\ x_is_object \/ x_is_callable
          /\ y[1] # "method"
          => IF y[1] \in {"type", "instance"}
             THEN /\ n \notin DOMAIN AfterRefresh
                  /\ x_is_object /\ x_obj # y[2] => DerivedFrom(AfterRefresh, n, x_obj) = {}
             ELSE /\ Dispatched(n, AfterRefresh) = Invoke(FunctionTarget(y[3]), PyDict({}))
                  /\ x_is_object => DerivedFrom(AfterRefresh, n, x_obj) = {}]_vars

----------------------------------------------------------------------------
(* Properties of the serve loop *)

\* C24: a server takes a request only when it has none in hand, the handle()
\* of the one before having returned, and a reply leaves only from handle(),
\* for the request in hand: requests are handled one at a time and the
\* replies leave in the order the requests arrived
C24_OneRequestAtATime ==
  [][\A s \in Servers :
       /\ recv_request'[s] # recv_request[s] /\ recv_request'[s] # NoRequest
          => /\ pc[s] = "recv"
             /\ recv_request[s] = NoRequest
             /\ sent[s] = <<>>
             /\ pc'[s] = "handle"
       /\ sent'[s] # sent[s] /\ sent'[s] # <<>>
          => /\ pc[s] = "handle"
             /\ recv_request[s] # NoRequest
             /\ recv_request'[s] = recv_request[s]
             /\ pc'[s] \in {"loop", "raised"}]_vars

\* a request has been handled and answered, and the server is back at the
\* head of its loop
C24_Witness ==
  /\ pc["s1"] = "loop"
  /\ recv_request["s1"] # NoRequest
  /\ CompleteMessage(sent["s1"])

C26_BoundWhenThreadReturned ==
  \A s \in Servers :
    rpcServerThread[s] = "returned" => pc[s] \in {"bound", "loop", "recv", "handle"}

\* C27: when the socket refuses a reply, a success reply or an error reply,
\* handle() returns and the server is at the head of its loop again, no
\* exception having left the loop
C27_SendFailureStaysInLoop ==
  [][\A s \in Servers :
       (\E oc \in HandleOutcomes(recv_request[s], exported_callables) : HandleSendFails(s, oc))
       => pc'[s] = "loop" /\ raised'[s] = "none"]_vars

----------------------------------------------------------------------------
(* Properties of the request shorthand and of raw replies *)

\* what handle() did with the request of s is what it does with the request
\* object {type: call, call: name, params: {}}
HandledAsCallOf(s, name) ==
  LET r == HandleResult(DocRequest(RequestDict(PyStr(<<"call">>), PyStr(name), PyDict({}))),
                        exported_callables, rpc_attrs, last_call[s].oc)
  IN /\ sent[s] = r.frames
     /\ last_call[s].target = r.target
     /\ raised[s] = r.raised

\* the handled request is a string that json.loads rejects with
\* JSONDecodeError and that has no delimiter once its ends are trimmed
IsBareToken(s) ==
  /\ Handled(s)
  /\ recv_request[s].doc = NoDoc
  /\ ~TextRaisesUnicodeDecodeError(recv_request[s].text)
  /\ ~TextIsJson(recv_request[s].text)
  /\ \A i \in 1..Len(Strip(recv_request[s].text)) : Strip(recv_request[s].text)[i] \notin Delimiters

\* C28 as stated: every request string without a delimiter character is
\* handled as the call of that string with empty params
C28_DelimiterFreeStringIsCall ==
  \A s \in Servers :
    /\ Handled(s)
    /\ recv_request[s].doc = NoDoc
    /\ \A i \in 1..Len(recv_request[s].text) : recv_request[s].text[i] \notin Delimiters
    => HandledAsCallOf(s, recv_request[s].text)

\* C28, amended: a request string that is not JSON (json.loads raises
\* JSONDecodeError) and that has no delimiter character once whitespace is
\* trimmed from its ends is handled as the call of the trimmed string with
\* empty params
C28_BareTokenIsCall ==
  \A s \in Servers : IsBareToken(s) => HandledAsCallOf(s, Strip(recv_request[s].text))

\* the token ' foo' has called foo
C28_Witness ==
  /\ IsBareToken("s1")
  /\ recv_request["s1"].text # Strip(recv_request["s1"].text)
  /\ last_call["s1"].target = FunctionTarget("foo")
  /\ CompleteMessage(sent["s1"])

\* C29: for a raw-marked target that returned, the Raw header is followed by
\* no frame only when the target returned None, that reply being a complete
\* message, and by at least one binary frame, and binary frames only, for
\* every other value
C29_RawPayloadFrames ==
  \A s \in Servers :
    Returned(s) /\ Marked(s, RpcRawPayloadAttr) /\ ~Marked(s, RpcImagePayloadAttr)
    => /\ sent[s] # <<>>
       /\ IsHeader(sent[s][1], "raw")
       /\ CompleteMessage(sent[s])
       /\ \A i \in 2..Len(sent[s]) : ~sent[s][i].json
       /\ Len(sent[s]) = 1 <=> last_call[s].oc.val = PyNone

\* the buffers of the frames that follow the header, in their order
PayloadsOf(frames) == [i \in 1..(Len(frames) - 1) |-> PyBytes(frames[i + 1].body)]

\* a message whose first frame is a Raw header and whose other frames are
\* binary, whoever sent it
IsRawMessage(frames) ==
  /\ frames # <<>>
  /\ frames[1].json
  /\ {"status", "type"} \subseteq DOMAIN frames[1].body
  /\ IsRawReply(frames)

\* C30 as stated: for a Raw reply request() returns the one buffer when one
\* frame follows the header, and the list of the buffers, in order, for
\* every other number of frames
C30_RawReplyListUnlessOne ==
  [][ClientReturn /\ IsRawMessage(rep_msg)
     => cresult' = IF Len(rep_msg) = 2 THEN PayloadsOf(rep_msg)[1]
                   ELSE PyList(PayloadsOf(rep_msg))]_vars

\* C30, amended: for a Raw reply request() returns the one buffer when one
\* frame follows the header, the list of the buffers, in order, when two or
\* more follow, and None when none follows
C30_RawReplyNoneOneOrList ==
  [][ClientReturn /\ IsRawMessage(rep_msg)
     => cresult' = CASE Len(rep_msg) = 1 -> PyNone
                     [] Len(rep_msg) = 2 -> PayloadsOf(rep_msg)[1]
                     [] OTHER -> PyList(PayloadsOf(rep_msg))]_vars

\* request() has returned the two buffers of a peer's Raw reply, no server
\* of this module having handled a request
C30_Witness ==
  /\ cpc = "idle"
  /\ cresult = PyList(<<Buf1, Buf2>>)
  /\ pc["s1"] = "recv" /\ recv_request["s1"] = NoRequest

----------------------------------------------------------------------------
(* Properties of refresh() and of the shared tables *)

\* the method m of the exported object obj is enabled and bound to obj: a
\* classmethod for the class, an instance method for an instance
Contributes(obj, m) ==
  /\ HasAttr(rpc_attrs, m, RpcEnabledAttr)
  /\ IF obj = TheClass THEN IsClassMethodName(m) ELSE ~IsClassMethodName(m)

\* the entries refresh() has to write now
EntriesDue ==
  {<<QualifiedName(exported_objects[p[1]][1], p[2]), MethodTarget(exported_objects[p[1]][2], p[2])>> :
     p \in {q \in (DOMAIN exported_objects) \X MethodNames : Contributes(exported_objects[q[1]][2], q[2])}}

\* C31: refresh() writes the entry 'object-name.method-name' for every
\* exported object and every enabled method bound to that very object, and
\* writes no other entry: every other name keeps what it had or stays absent
C31_RefreshWritesBoundEnabled ==
  [][Refresh =>
       /\ \A w \in EntriesDue :
            w[1] \in DOMAIN exported_callables' /\ exported_callables'[w[1]] = w[2]
       /\ \A k \in DOMAIN exported_callables' \ {w[1] : w \in EntriesDue} :
            k \in DOMAIN exported_callables /\ exported_callables'[k] = exported_callables[k]]_vars

\* after a refresh() with the class and the instance exported, the class has
\* its classmethod, the instance its instance method, and neither the other's
C31_Witness ==
  /\ last_op.op = "refresh"
  /\ {ClassName, QName} \subseteq OdKeys(exported_objects)
  /\ QualifiedName(ClassName, "count") \in DOMAIN exported_callables
  /\ PushName \in DOMAIN exported_callables
  /\ exported_callables[PushName] = MethodTarget(TheInstance, "push")
  /\ QualifiedName(QName, "count") \notin DOMAIN exported_callables
  /\ QualifiedName(ClassName, "push") \notin DOMAIN exported_callables

\* C32: a server is in the running-instances set while it serves, and once
\* its run() has ended, by returning or by an exception, it is in the set
\* no longer and its socket is closed, so that its address can be bound anew
C32_RunningInstancesAreServing ==
  \A s \in Servers :
    /\ InLoop(s) => s \in running_instances
    /\ pc[s] \in {"refused", "raised", "stopped"}
       => s \notin running_instances /\ s \notin bound_sockets

C34_CallableExportImmediate ==
  [][/\ \A e \in Exports :
          Export(e[1], e[2]) /\ e[2][1] = "callable"
          => Dispatched(ExportedName(e[1], e[2]), exported_callables')
               = Invoke(FunctionTarget(e[2][3]), PyDict({}))
     /\ \A n \in UnexportNames :
          Unexport(n) /\ n \in DOMAIN exported_callables /\ exported_callables[n][1] = NoSelf
          => Dispatched(n, exported_callables') = RpcError(reply_bad_call)
     /\ \A e \in Exports :
          Export(e[1], e[2]) /\ e[2][1] \in {"type", "instance"}
          => exported_callables' = exported_callables]_vars

\* C34, amended: the same for a name n that is no helper's name, and, for
\* unexport(n), no exported object's name
C34_PlainCallableImmediate ==
  [][/\ \A e \in Exports :
          /\ Export(e[1], e[2]) /\ e[2][1] = "callable"
          /\ ExportedName(e[1], e[2]) \notin DOMAIN _helpers
          => Dispatched(ExportedName(e[1], e[2]), exported_callables')
               = Invoke(FunctionTarget(e[2][3]), PyDict({}))
     /\ \A n \in UnexportNames :
          /\ Unexport(n) /\ n \in DOMAIN exported_callables /\ exported_callables[n][1] = NoSelf
          /\ n \notin DOMAIN _helpers
          /\ n \notin OdKeys(exported_objects)
          => Dispatched(n, exported_callables') = RpcError(reply_bad_call)
     /\ \A e \in Exports :
          Export(e[1], e[2]) /\ e[2][1] \in {"type", "instance"}
          => exported_callables' = exported_callables]_vars

\* the plain function foo has just been unexported and its name is unknown,
\* while the instance q, exported and never refreshed, has no entry yet
C34_Witness ==
  /\ last_op = [op |-> "unexport", name |-> <<"foo">>, found |-> TRUE]
  /\ Dispatched(<<"foo">>, exported_callables) = RpcError(reply_bad_call)
  /\ QName \in OdKeys(exported_objects)
  /\ PushName \notin DOMAIN exported_callables
  /\ HasAttr(rpc_attrs, "push", RpcEnabledAttr)

\* C35: unexport of the entry 'o.m' of an enabled method of an exported
\* object removes the entry, and a refresh() after it writes it again
C35_UnexportedMethodComesBack ==
  [][\A n \in UnexportNames : \A w \in EntriesDue :
       /\ Unexport(n)
       /\ w[1] = n
       /\ n \in DOMAIN exported_callables
       /\ n \notin OdKeys(exported_objects)
       => /\ n \notin DOMAIN exported_callables'
          /\ n \in DOMAIN AfterRefresh
          /\ AfterRefresh[n] = w[2]]_vars

\* 'q.push' has just been unexported while q is exported and push enabled
C35_Witness ==
  /\ last_op = [op |-> "unexport", name |-> PushName, found |-> TRUE]
  /\ QName \in OdKeys(exported_objects)
  /\ HasAttr(rpc_attrs, "push", RpcEnabledAttr)
  /\ PushName \notin DOMAIN exported_callables
  /\ PushName \in DOMAIN Refreshed(rpc_attrs, exported_objects, exported_callables)

\* C36: enable() and disable() mark the function, so that after enable(m)
\* and the next refresh() every exported instance has its entry for the
\* instance method m, and after disable(m) and the next refresh() none has
C36_FlagSharedByInstances ==
  [][\A m \in {x \in MethodNames : ~IsClassMethodName(x)} :
       LET instances == {i \in DOMAIN exported_objects : exported_objects[i][2] # TheClass}
           exposed(i) == HasMethodEntry(AfterRefresh, exported_objects[i][1], exported_objects[i][2], m)
       IN /\ Enable(m, NoAttr) => \A i \in instances : exposed(i)
          /\ Disable(m) => \A i \in instances : ~exposed(i)]_vars

\* C37: every server, whatever its address, dispatches by the one helper
\* table and the one dispatch table of the module.  A helper's name goes to
\* the helper; right after clear() every other name is unknown to every
\* server; right after export(n, f) of a plain callable every server
\* dispatches n to f; right after refresh() every server dispatches the
\* entries of the enabled methods of the exported objects.
C37_ServersShareTables ==
  [][\A s \in Servers :
       pc[s] = "handle" /\ pc'[s] # "handle"
       => LET n == recv_request[s].doc.call.s
              t == last_call'[s].target
          IN /\ n \in DOMAIN _helpers => t = _helpers[n]
             /\ last_op.op = "clear" /\ n \notin DOMAIN _helpers
                => t = NoTarget /\ sent'[s] = <<JsonFrame(reply_bad_call, FALSE)>>
             /\ /\ last_op.op = "export" /\ last_op.obj[1] = "callable"
                /\ ExportedName(last_op.name, last_op.obj) = n
                /\ n \notin DOMAIN _helpers
                => t = FunctionTarget(last_op.obj[3])
             /\ last_op.op = "refresh" => \A w \in EntriesDue : w[1] = n => t = w[2]]_vars

\* both servers, at their two addresses, have dispatched 'foo' to the
\* function exported under that name
C37_Witness ==
  /\ addr["s1"] # addr["s2"]
  /\ \A s \in Servers :
       /\ pc[s] = "loop"
       /\ recv_request[s] = DocRequest(MakeCallRequest(PyStr(<<"foo">>), PyDict({})))
       /\ last_call[s].target = FunctionTarget("foo")
       /\ CompleteMessage(sent[s])

\* C38: a server that was not yet in its serve loop when stop() was called
\* sets its loop flag on entering the loop and passes its loop tests as if
\* stop() had not been called
C38_EarlyStopIsLost ==
  [][\A s \in Servers :
       ~Server_loop_flag /\ s \notin stop_pending
       => /\ pc[s] = "bound" /\ pc'[s] # "bound" => pc'[s] = "loop" /\ LoopFlag(s)'
          /\ pc[s] = "loop" /\ pc'[s] # "loop" => pc'[s] = "recv"]_vars

\* stop() was called before the server that start_server_thread() launched
\* was in its loop, and the server handles a request
C38_Witness ==
  /\ ~Server_loop_flag
  /\ "s1" \notin stop_pending
  /\ rpcServerThread["s1"] = "returned"
  /\ pc["s1"] = "handle"

\* the reply is one of those for which request() is to return None: not
\* parseable JSON; status ok with no type or a type that is not known, or
\* with a header that lacks its fields or its following frames; or a Value
\* reply of null
IsNoneReply(frames) ==
  LET rep == frames[1].body
      has(f) == f \in DOMAIN rep
  IN \/ ~frames[1].json
     \/ /\ has("status") /\ rep.status = "ok"
        /\ \/ ~has("type")
           \/ has("type") /\ rep.type \notin {"value", "image", "raw"}
           \/ has("type") /\ rep.type = "value" /\ ~has("value")
           \/ has("type") /\ rep.type = "value" /\ has("value") /\ JsonLoads(rep.value) = PyNone
           \/ has("type") /\ rep.type = "image" /\ ~(has("shape") /\ has("dtype") /\ Len(frames) > 1)
           \/ has("type") /\ rep.type = "raw" /\ Len(frames) = 1

\* C39: request() returns None when the receive times out and for the
\* replies above, and for every other reply it returns a value that is not
\* None or an Exception object
C39_NoneExactlyWhen ==
  [][/\ ClientTimeout => cresult' = PyNone
     /\ ClientReturn =>
          IF IsNoneReply(rep_msg) THEN cresult' = PyNone
          ELSE cresult'.t \notin {"None", "raised"}]_vars

============================================================================
